---- MODULE Spec2Model ----
(***************************************************************************)
(* A model of json-rs (src/src/json.rs): the nom-based recursive-descent   *)
(* JSON parser (parse_json_null, parse_json_bool, parse_json_number,       *)
(* parse_json_string, parse_json_array, parse_json_map, parse_json_value)  *)
(* and the Display renderer of JSONObject.                                 *)
(*                                                                         *)
(* A text (&str) is a sequence of one-character strings.  A parser result  *)
(* (nom's IResult) is a record: kind "Ok" with the remaining text and the  *)
(* output, kind "Error" (nom::Err::Error, recoverable: alt and opt try the *)
(* next branch) or kind "Failure" (nom::Err::Failure, produced by cut, not *)
(* recoverable), each with the text at which the error was raised and the  *)
(* ErrorKind.  Kind "Panic" is the abort of an `expect` on an Err.         *)
(***************************************************************************)
EXTENDS Integers, Sequences, FiniteSets, TLC

VARIABLES doc, input, op, res, shown

vars == <<doc, input, op, res, shown>>

----------------------------------------------------------------------------
(* Texts                                                                   *)

Drop(s, k) == SubSeq(s, k + 1, Len(s))

Take(s, k) == SubSeq(s, 1, k)

StartsWith(s, t) == Len(t) <= Len(s) /\ SubSeq(s, 1, Len(t)) = t

RECURSIVE Concat(_)
Concat(ss) == IF ss = <<>> THEN <<>> ELSE Head(ss) \o Concat(Tail(ss))

RECURSIVE Join(_, _)
Join(ss, sep) ==
  IF ss = <<>> THEN <<>>
  ELSE IF Len(ss) = 1 THEN Head(ss)
  ELSE Head(ss) \o sep \o Join(Tail(ss), sep)

(* All sequences over S of length at most n. *)
SeqsUpTo(S, n) == UNION {[1..k -> S] : k \in 0..n}

----------------------------------------------------------------------------
(* nom results                                                             *)

Ok(rest, out) == [kind |-> "Ok", rest |-> rest, out |-> out]

Error(at, code) == [kind |-> "Error", rest |-> at, out |-> code]

Failure(at, code) == [kind |-> "Failure", rest |-> at, out |-> code]

Panic(msg) == [kind |-> "Panic", rest |-> <<>>, out |-> msg]

NoResult == [kind |-> "None", rest |-> <<>>, out |-> "none"]

IsErr(r) == r.kind \in {"Error", "Failure"}

(* let x = v; F(x): v is computed once and F reads the value. *)
Bind(v, F(_)) == CHOOSE y \in {F(x) : x \in {v}} : TRUE

----------------------------------------------------------------------------
(* JSONObject (json.rs 14-22)                                              *)

Null == [type |-> "Null"]

Bool(b) == [type |-> "Bool", b |-> b]

Number(n) == [type |-> "Number", n |-> n]

String(s) == [type |-> "String", s |-> s]

Array(items) == [type |-> "Array", items |-> items]

(* A HashMap<String, JSONObject>: at most one entry per key.  entries is   *)
(* the sequence of <<key, value>> in the map's iteration order.            *)
Map(entries) == [type |-> "Map", entries |-> entries]

----------------------------------------------------------------------------
(* nom character classes and leaf parsers                                  *)

(* multispace0: space, tab, line feed, carriage return. *)
Whitespace == {" ", "\t", "\n", "\r"}

Digits == {"0", "1", "2", "3", "4", "5", "6", "7", "8", "9"}

RECURSIVE multispace0(_)
multispace0(s) ==
  IF s # <<>> /\ Head(s) \in Whitespace THEN multispace0(Tail(s)) ELSE s

(* tag(t): compares the input with t and splits it after Len(t). *)
tag(t, s) ==
  IF Len(s) >= Len(t) /\ \A i \in 1..Len(t) : s[i] = t[i]
  THEN Ok(Drop(s, Len(t)), t)
  ELSE Error(s, "Tag")

(* char(c) *)
char(c, s) ==
  IF s # <<>> /\ Head(s) = c THEN Ok(Tail(s), c) ELSE Error(s, "Char")

(* Number of leading characters of s that belong to S. *)
RECURSIVE SpanLen(_, _)
SpanLen(s, S) ==
  IF s # <<>> /\ Head(s) \in S THEN 1 + SpanLen(Tail(s), S) ELSE 0

(* delimited(multispace0, char(c), multispace0) *)
wsChar(c, s) ==
  Bind(char(c, multispace0(s)), LAMBDA r :
    IF r.kind = "Ok" THEN Ok(multispace0(r.rest), c) ELSE r)

----------------------------------------------------------------------------
(* Literal matchers (json.rs 24-40)                                        *)

NullWord == <<"n", "u", "l", "l">>

TrueWord == <<"t", "r", "u", "e">>

FalseWord == <<"f", "a", "l", "s", "e">>

parse_json_null(s) ==
  Bind(tag(NullWord, s), LAMBDA r :
    IF r.kind = "Ok" THEN Ok(r.rest, Null) ELSE r)

(* alt((tag("true"), tag("false"))): the second tag is tried on the same   *)
(* input when the first returns Error; the error of the last is returned.  *)
BoolWord(s) ==
  Bind(tag(TrueWord, s), LAMBDA r :
    IF r.kind = "Error" THEN tag(FalseWord, s) ELSE r)

(* parse_json_bool telling true from false the wrong way round. *)
parse_json_bool_swapped(s) ==
  Bind(BoolWord(s), LAMBDA r :
    IF r.kind = "Ok" THEN Ok(r.rest, Bool(r.out = FalseWord)) ELSE r)

parse_json_bool(s) ==
  Bind(BoolWord(s), LAMBDA r :
    IF r.kind = "Ok" THEN Ok(r.rest, Bool(r.out = TrueWord)) ELSE r)

----------------------------------------------------------------------------
(* Number grammar (json.rs 42-52)                                          *)

Signs == {"+", "-"}

ExpMarks == {"e", "E"}

SignLen(s) == IF s # <<>> /\ Head(s) \in Signs THEN 1 ELSE 0

(* The part of s after its first k characters starts with c. *)
CharAt(s, k, c) == Len(s) > k /\ s[k + 1] = c

(* alt(( (digit1, opt(pair(char('.'), opt(digit1)))), (char('.'), digit1) )) *)
(* of nom's recognize_float: the length it consumes, or -1 on Error.       *)
RecognizeMantissa(s) ==
  Bind(SpanLen(s, Digits), LAMBDA d :
    Bind(IF CharAt(s, d, ".") THEN SpanLen(Drop(s, d + 1), Digits) ELSE -1, LAMBDA f :
      IF d > 0 THEN (IF f >= 0 THEN d + 1 + f ELSE d)
      ELSE IF f > 0 THEN 1 + f
      ELSE -1))

(* An exponent recognizer that takes the digits after the mark and the    *)
(* sign as optional.                                                       *)
RecognizeExponentNoDigits(s) ==
  IF s # <<>> /\ Head(s) \in ExpMarks
  THEN Bind(SignLen(Tail(s)), LAMBDA g : 1 + g + SpanLen(Drop(s, 1 + g), Digits))
  ELSE 0

(* opt(( alt((char('e'), char('E'))), opt(alt((char('+'), char('-')))),    *)
(* cut(digit1) )) of recognize_float: the length it consumes (0 when there *)
(* is no exponent mark), or -1 when cut(digit1) turns the missing digits   *)
(* into a Failure, which opt does not absorb.                              *)
RecognizeExponent(s) ==
  IF s # <<>> /\ Head(s) \in ExpMarks
  THEN Bind(SignLen(Tail(s)), LAMBDA g :
         Bind(SpanLen(Drop(s, 1 + g), Digits), LAMBDA x :
           IF x > 0 THEN 1 + g + x ELSE -1))
  ELSE 0

(* nom::number::complete::recognize_float: recognize((opt(sign), mantissa, *)
(* opt(exponent))).                                                        *)
recognize_float(s) ==
  Bind(SignLen(s), LAMBDA a :
    Bind(RecognizeMantissa(Drop(s, a)), LAMBDA m :
      IF m < 0 THEN Error(Drop(s, a), "Digit")
      ELSE Bind(RecognizeExponent(Drop(s, a + m)), LAMBDA e :
        IF e < 0 THEN Failure(Drop(s, a + m), "Digit")
        ELSE Ok(Drop(s, a + m + e), Take(s, a + m + e)))))

DigitValue(c) ==
  CASE c = "0" -> 0 [] c = "1" -> 1 [] c = "2" -> 2 [] c = "3" -> 3
    [] c = "4" -> 4 [] c = "5" -> 5 [] c = "6" -> 6 [] c = "7" -> 7
    [] c = "8" -> 8 [] c = "9" -> 9

RECURSIVE DigitsToNat(_, _)
DigitsToNat(ds, acc) ==
  IF ds = <<>> THEN acc ELSE DigitsToNat(Tail(ds), 10 * acc + DigitValue(Head(ds)))

RECURSIVE NumDigits(_)
NumDigits(n) == IF n < 10 THEN 1 ELSE 1 + NumDigits(n \div 10)

(* Largest and smallest decimal orders of magnitude an f64 holds: beyond   *)
(* the first the conversion yields infinity, below the second zero.        *)
F64Max10Exp == 308

F64MinDenorm10Exp == -324

(* An f64 as the decimal mant * 10^exp it was read from, mant without      *)
(* trailing zeros; inf marks an infinity, nan a NaN.                       *)
F64(neg, mant, exp) == [neg |-> neg, mant |-> mant, exp |-> exp, inf |-> FALSE, nan |-> FALSE]

F64Inf(neg) == [neg |-> neg, mant |-> 0, exp |-> 0, inf |-> TRUE, nan |-> FALSE]

F64NaN == [neg |-> FALSE, mant |-> 0, exp |-> 0, inf |-> FALSE, nan |-> TRUE]

RECURSIVE F64Normal(_, _, _)
F64Normal(neg, mant, exp) ==
  IF mant = 0 THEN F64(neg, 0, 0)
  ELSE IF mant % 10 = 0 THEN F64Normal(neg, mant \div 10, exp + 1)
  ELSE IF NumDigits(mant) + exp > F64Max10Exp + 1 THEN F64Inf(neg)
  ELSE IF NumDigits(mant) + exp <= F64MinDenorm10Exp THEN F64(neg, 0, 0)
  ELSE F64(neg, mant, exp)

(* f64 == : NaN differs from everything, the two zeros are equal. *)
F64Eq(x, y) ==
  /\ ~x.nan /\ ~y.nan
  /\ x.inf = y.inf /\ x.mant = y.mant /\ x.exp = y.exp
  /\ (x.neg = y.neg \/ (x.mant = 0 /\ ~x.inf))

InfNanWords == {<<"i", "n", "f">>, <<"i", "n", "f", "i", "n", "i", "t", "y">>, <<"n", "a", "n">>}

(* The exponent of dec2flt's parse_scientific on s, the text after the    *)
(* fraction: none when s is empty; an exponent mark, an optional sign and  *)
(* at least one digit up to the end of s; anything else is invalid.        *)
FromStrExponent(s) ==
  IF s = <<>> THEN Ok(<<>>, 0)
  ELSE IF Head(s) \notin ExpMarks THEN Error(s, "Invalid")
  ELSE Bind(Drop(s, 1 + SignLen(Tail(s))), LAMBDA ds :
         IF ds = <<>> \/ SpanLen(ds, Digits) # Len(ds) THEN Error(s, "Invalid")
         ELSE Ok(<<>>, IF s[2] = "-" THEN -DigitsToNat(ds, 0) ELSE DigitsToNat(ds, 0)))

(* <f64 as FromStr>::from_str (core::num::dec2flt), called by              *)
(* parsed.parse(): an optional sign, then digits with an optional '.' and  *)
(* at least one digit on either side of it, then an optional exponent with *)
(* at least one digit; or inf, infinity, nan (written here in lower case). *)
(* The whole text must be used up.                                         *)
F64FromStr(lex) ==
  IF lex = <<>> THEN Error(lex, "Empty")
  ELSE Bind(Drop(lex, SignLen(lex)), LAMBDA body :
    IF body = <<>> THEN Error(lex, "Invalid")
    ELSE Bind(SpanLen(body, Digits), LAMBDA i :
      Bind(IF CharAt(body, i, ".") THEN SpanLen(Drop(body, i + 1), Digits) ELSE -1, LAMBDA f :
        IF i = 0 /\ f <= 0
        THEN (IF body \in InfNanWords
              THEN Ok(<<>>, IF Head(body) = "n" THEN F64NaN ELSE F64Inf(Head(lex) = "-"))
              ELSE Error(lex, "Invalid"))
        ELSE Bind(FromStrExponent(Drop(body, IF f < 0 THEN i ELSE i + 1 + f)), LAMBDA e :
          IF e.kind # "Ok" THEN Error(lex, "Invalid")
          ELSE Ok(<<>>, F64Normal(Head(lex) = "-",
                                  DigitsToNat(Take(body, i) \o SubSeq(body, i + 2, i + 1 + f), 0),
                                  e.out - (IF f < 0 THEN 0 ELSE f)))))))

(* parsed.parse().expect("Error during Float Parsing"): the conversion of  *)
(* the recognized text; its Err aborts the program.                        *)
parse_json_number(s) ==
  Bind(recognize_float(s), LAMBDA r :
    IF r.kind # "Ok" THEN r
    ELSE Bind(F64FromStr(r.out), LAMBDA c :
      IF c.kind = "Ok" THEN Ok(r.rest, Number(c.out))
      ELSE Panic("Error during Float Parsing")))

----------------------------------------------------------------------------
(* String grammar (json.rs 53-68)                                          *)

Quote == "\""

Backslash == "\\"

(* one_of("\"nrt\\") *)
EscapableChars == {"\"", "n", "r", "t", "\\"}

(* take_while1(|c| c != '\\' && c != '"'): the length of the run, 0 = Error *)
RECURSIVE NormalLen(_)
NormalLen(s) ==
  IF s # <<>> /\ Head(s) # Backslash /\ Head(s) # Quote
  THEN 1 + NormalLen(Tail(s))
  ELSE 0

(* nom::bytes::complete::escaped(normal, '\\', escapable) on inp, with i   *)
(* the text still to read: the loop over i.  Its output is the recognized  *)
(* slice of inp as written, escapes included.                              *)
RECURSIVE EscapedLoop(_, _)
EscapedLoop(inp, i) ==
  IF i = <<>> THEN Ok(<<>>, inp)
  ELSE Bind(NormalLen(i), LAMBDA n :
    IF n > 0
    THEN (IF n = Len(i) THEN Ok(<<>>, inp) ELSE EscapedLoop(inp, Drop(i, n)))
    ELSE IF Head(i) = Backslash
    THEN (IF Len(i) <= 1 THEN Error(inp, "Escaped")
          ELSE IF i[2] \notin EscapableChars THEN Error(Tail(i), "OneOf")
          ELSE IF Len(i) = 2 THEN Ok(<<>>, inp)
          ELSE EscapedLoop(inp, Drop(i, 2)))
    ELSE IF Len(inp) - Len(i) = 0 THEN Error(inp, "Escaped")
    ELSE Ok(i, Take(inp, Len(inp) - Len(i))))

escaped(inp) == EscapedLoop(inp, inp)

(* delimited(tag("\""), escaped(..), tag("\"")), then parsed.to_string() *)
parse_json_string(s) ==
  Bind(tag(<<Quote>>, s), LAMBDA open :
    IF open.kind # "Ok" THEN open
    ELSE Bind(escaped(open.rest), LAMBDA body :
      IF body.kind # "Ok" THEN body
      ELSE Bind(tag(<<Quote>>, body.rest), LAMBDA close :
        IF close.kind # "Ok" THEN close
        ELSE Ok(close.rest, String(body.out)))))

----------------------------------------------------------------------------
(* HashMap (json.rs 107-118, 152-155)                                      *)

RECURSIVE Reverse(_)
Reverse(s) == IF s = <<>> THEN <<>> ELSE Append(Reverse(Tail(s)), Head(s))

Rotate(s, k) ==
  IF s = <<>> THEN s ELSE Drop(s, k % Len(s)) \o Take(s, k % Len(s))

HasKey(entries, k) == \E i \in 1..Len(entries) : entries[i][1] = k

(* HashMap::get *)
Lookup(entries, k) ==
  entries[CHOOSE i \in 1..Len(entries) : entries[i][1] = k][2]

(* HashMap::insert: the value of a key already present is replaced. *)
Insert(entries, k, v) ==
  IF HasKey(entries, k)
  THEN [i \in 1..Len(entries) |->
          IF entries[i][1] = k THEN <<k, v>> ELSE entries[i]]
  ELSE Append(entries, <<k, v>>)

(* for (k, v) in parsed { map.insert(key, v) } *)
RECURSIVE InsertAll(_, _)
InsertAll(entries, pairs) ==
  IF pairs = <<>> THEN entries
  ELSE InsertAll(Insert(entries, Head(pairs)[1], Head(pairs)[2]), Tail(pairs))

(* The order in which map.iter() visits the entries: it follows from the   *)
(* hashes of the keys under the map's RandomState, not from the order of   *)
(* insertion.  seed stands for the RandomState: it selects a permutation   *)
(* (a reversal and a rotation) of the entries.                             *)
IterOrder(entries, seed) ==
  Rotate(IF seed.rev THEN Reverse(entries) ELSE entries, seed.rot)

----------------------------------------------------------------------------
(* Array, object and value grammars (json.rs 70-138)                       *)

RECURSIVE parse_json_value(_, _)
RECURSIVE parse_json_array(_, _)
RECURSIVE parse_json_map(_, _)
RECURSIVE ElementsRest(_, _, _)
RECURSIVE PairsRest(_, _, _)

(* ElementsRest keeping the separator consumed when no element follows.   *)
ElementsRestPastSeparator(i, acc, seed) ==
  Bind(wsChar(",", i), LAMBDA sep :
    IF sep.kind # "Ok" THEN Ok(i, acc)
    ELSE Bind(parse_json_value(sep.rest, seed), LAMBDA r :
      IF r.kind = "Error" THEN Ok(sep.rest, acc)
      ELSE IF r.kind # "Ok" THEN r
      ELSE ElementsRest(r.rest, Append(acc, r.out), seed)))

(* separated_list0(delimited(multispace0, char(','), multispace0),         *)
(* parse_json_value) after its first element: i is the text after the last *)
(* element, acc the elements so far.  An Error of the separator or of the  *)
(* element after it ends the list at i; anything else is returned.         *)
ElementsRest(i, acc, seed) ==
  Bind(wsChar(",", i), LAMBDA sep :
    IF sep.kind # "Ok" THEN Ok(i, acc)
    ELSE Bind(parse_json_value(sep.rest, seed), LAMBDA r :
      IF r.kind = "Error" THEN Ok(i, acc)
      ELSE IF r.kind # "Ok" THEN r
      ELSE ElementsRest(r.rest, Append(acc, r.out), seed)))

Elements(s, seed) ==
  Bind(parse_json_value(s, seed), LAMBDA r :
    IF r.kind = "Error" THEN Ok(s, <<>>)
    ELSE IF r.kind # "Ok" THEN r
    ELSE ElementsRest(r.rest, <<r.out>>, seed))

parse_json_array(s, seed) ==
  Bind(wsChar("[", s), LAMBDA open :
    IF open.kind # "Ok" THEN open
    ELSE Bind(Elements(open.rest, seed), LAMBDA elements :
      IF elements.kind # "Ok" THEN elements
      ELSE Bind(wsChar("]", elements.rest), LAMBDA close :
        IF close.kind # "Ok" THEN close
        ELSE Ok(close.rest, Array(elements.out)))))

(* separated_pair(delimited(multispace0, parse_json_string, multispace0),  *)
(* delimited(multispace0, char(':'), multispace0), parse_json_value)       *)
KeyValue(s, seed) ==
  Bind(parse_json_string(multispace0(s)), LAMBDA key :
    IF key.kind # "Ok" THEN key
    ELSE Bind(wsChar(":", multispace0(key.rest)), LAMBDA colon :
      IF colon.kind # "Ok" THEN colon
      ELSE Bind(parse_json_value(colon.rest, seed), LAMBDA value :
        IF value.kind # "Ok" THEN value
        ELSE Ok(value.rest, <<key.out, value.out>>))))

PairsRest(i, acc, seed) ==
  Bind(wsChar(",", i), LAMBDA sep :
    IF sep.kind # "Ok" THEN Ok(i, acc)
    ELSE Bind(KeyValue(sep.rest, seed), LAMBDA r :
      IF r.kind = "Error" THEN Ok(i, acc)
      ELSE IF r.kind # "Ok" THEN r
      ELSE PairsRest(r.rest, Append(acc, r.out), seed)))

(* map_contents: separated_list0(.., key_value) *)
MapContents(s, seed) ==
  Bind(KeyValue(s, seed), LAMBDA r :
    IF r.kind = "Error" THEN Ok(s, <<>>)
    ELSE IF r.kind # "Ok" THEN r
    ELSE PairsRest(r.rest, <<r.out>>, seed))

(* The match of json.rs 105-121: the parsed pairs are inserted one by one  *)
(* into a new HashMap; a key that is no JSONObject::String is an Error.    *)
CollectMap(s, rest, pairs, seed) ==
  IF \E i \in 1..Len(pairs) : pairs[i][1].type # "String"
  THEN Error(s, "Tag")
  ELSE Ok(rest, Map(IterOrder(InsertAll(<<>>, [i \in 1..Len(pairs) |->
                                                 <<pairs[i][1].s, pairs[i][2]>>]), seed)))

parse_json_map(s, seed) ==
  Bind(wsChar("{", s), LAMBDA open :
    IF open.kind # "Ok" THEN open
    ELSE Bind(MapContents(open.rest, seed), LAMBDA contents :
      IF contents.kind # "Ok" THEN contents
      ELSE Bind(wsChar("}", contents.rest), LAMBDA close :
        IF close.kind # "Ok" THEN close
        ELSE CollectMap(s, close.rest, contents.out, seed))))

(* The alt of json.rs 127-134 at i: every branch reads from i; the first   *)
(* result that is not an Error is returned, else the Error of the last.    *)
ValueAlt(i, seed) ==
  Bind(parse_json_null(i), LAMBDA n :
    IF n.kind # "Error" THEN n
    ELSE Bind(parse_json_bool(i), LAMBDA b :
      IF b.kind # "Error" THEN b
      ELSE Bind(parse_json_number(i), LAMBDA f :
        IF f.kind # "Error" THEN f
        ELSE Bind(parse_json_string(i), LAMBDA t :
          IF t.kind # "Error" THEN t
          ELSE Bind(parse_json_array(i, seed), LAMBDA a :
            IF a.kind # "Error" THEN a
            ELSE parse_json_map(i, seed))))))

(* parse_json_value without the multispace0 after the value. *)
parse_json_value_unterminated(s, seed) ==
  Bind(multispace0(s), LAMBDA i : ValueAlt(i, seed))

parse_json_value(s, seed) ==
  Bind(multispace0(s), LAMBDA i :
    Bind(ValueAlt(i, seed), LAMBDA r :
      IF r.kind = "Ok" THEN Ok(multispace0(r.rest), r.out) ELSE r))

----------------------------------------------------------------------------
(* Display for JSONObject (json.rs 140-160)                                *)

DigitChar(d) ==
  CASE d = 0 -> "0" [] d = 1 -> "1" [] d = 2 -> "2" [] d = 3 -> "3"
    [] d = 4 -> "4" [] d = 5 -> "5" [] d = 6 -> "6" [] d = 7 -> "7"
    [] d = 8 -> "8" [] d = 9 -> "9"

RECURSIVE NatToDigits(_)
NatToDigits(n) ==
  IF n < 10 THEN <<DigitChar(n)>>
  ELSE Append(NatToDigits(n \div 10), DigitChar(n % 10))

Zeros(k) == [i \in 1..k |-> "0"]

(* write!(f, "{}", n) for an f64: the shortest decimal that reads back as  *)
(* n, written without an exponent.                                         *)
RenderF64(x) ==
  LET d == NatToDigits(x.mant)
      k == -x.exp
      sign == IF x.neg THEN <<"-">> ELSE <<>>
  IN IF x.nan THEN <<"N", "a", "N">>
     ELSE IF x.inf THEN sign \o <<"i", "n", "f">>
     ELSE IF x.exp >= 0 THEN sign \o d \o Zeros(x.exp)
     ELSE IF Len(d) > k THEN sign \o Take(d, Len(d) - k) \o <<".">> \o Drop(d, Len(d) - k)
     ELSE sign \o <<"0", ".">> \o Zeros(k - Len(d)) \o d

RECURSIVE Render(_)
Render(v) ==
  CASE v.type = "Null" -> NullWord
    [] v.type = "Bool" -> (IF v.b THEN TrueWord ELSE FalseWord)
    [] v.type = "Number" -> RenderF64(v.n)
    [] v.type = "String" -> <<Quote>> \o v.s \o <<Quote>>
    [] v.type = "Array" ->
         <<"[">> \o Join([i \in 1..Len(v.items) |-> Render(v.items[i])], <<",", " ">>) \o <<"]">>
    [] v.type = "Map" ->
         <<"{">>
           \o Join([i \in 1..Len(v.entries) |->
                      <<Quote>> \o v.entries[i][1] \o <<Quote, ":", " ">>
                        \o Render(v.entries[i][2])],
                   <<",", " ">>)
           \o <<"}">>

(* #[derive(PartialEq)] of JSONObject: f64 == for numbers, element by      *)
(* element for arrays, HashMap == for maps (the same keys with equal       *)
(* values, whatever the iteration order).                                  *)
RECURSIVE ValueEq(_, _)
ValueEq(a, b) ==
  /\ a.type = b.type
  /\ CASE a.type = "Null" -> TRUE
       [] a.type = "Bool" -> a.b = b.b
       [] a.type = "Number" -> F64Eq(a.n, b.n)
       [] a.type = "String" -> a.s = b.s
       [] a.type = "Array" ->
            /\ Len(a.items) = Len(b.items)
            /\ \A i \in 1..Len(a.items) : ValueEq(a.items[i], b.items[i])
       [] a.type = "Map" ->
            /\ Len(a.entries) = Len(b.entries)
            /\ \A i \in 1..Len(a.entries) :
                 /\ HasKey(b.entries, a.entries[i][1])
                 /\ ValueEq(a.entries[i][2], Lookup(b.entries, a.entries[i][1]))

----------------------------------------------------------------------------
(* Bounds of the model                                                     *)

(* Elements of a generated array text. *)
MaxElems == 2

(* key : value pairs of a generated object text. *)
MaxPairs == 2

(* Characters of a generated number text. *)
MaxNumLen == 4

(* Pieces (runs and escapes) of a generated string literal. *)
MaxPieces == 2

(* Characters of a raw text handed to the string grammar. *)
MaxStrLen == 3

(* Characters appended to a (damaged) literal word. *)
MaxSuffix == 1

(* Items of a generated array or map value to render. *)
MaxItems == 2

(* Renderings kept to compare. *)
MaxShown == 2

----------------------------------------------------------------------------
(* The RandomState values a new HashMap can get. *)
HashSeeds == [rev : BOOLEAN, rot : 0..MaxPairs - 1]

----------------------------------------------------------------------------
(* Documents: what the caller hands to the parser.  A document is either a *)
(* raw text, or a description of how its text is composed (the elements of *)
(* an array, the pairs of an object, the pieces of a string literal), or a *)
(* JSONObject the caller holds and renders.                                *)

RawDoc(t) == [form |-> "raw", text |-> t]

(* Value texts used as array elements and object values. *)
ElemTexts ==
  { <<"1">>,
    <<"-", "2", ".", "5">>,
    NullWord,
    <<Quote, "a", Quote>>,
    <<"[", "2", ",", "3", "]">>,
    <<"{", Quote, "k", Quote, ":", "1", "}">> }

(* Texts that are no value for parse_json_value. *)
BadElemTexts == { <<"n", "u", "l">>, <<"1", "e">>, <<Quote, Quote>> }

Pads == { <<>>, <<" ">> }

Defects == {"none", "trailing_comma", "unclosed"}

RECURSIVE JoinPadded(_, _)
JoinPadded(ts, pad) ==
  IF ts = <<>> THEN <<>>
  ELSE IF Len(ts) = 1 THEN Head(ts)
  ELSE Head(ts) \o pad \o <<",">> \o pad \o JoinPadded(Tail(ts), pad)

Bracketed(open, body, close, pad, defect) ==
  <<open>> \o pad \o body
    \o (IF defect = "trailing_comma" THEN pad \o <<",">> ELSE <<>>)
    \o pad
    \o (IF defect = "unclosed" THEN <<>> ELSE <<close>>)

ArrayDocs ==
  [form : {"array"}, elems : SeqsUpTo(ElemTexts, MaxElems) \cup {<<b>> : b \in BadElemTexts}
                               \cup {<<<<"1">>, b>> : b \in BadElemTexts},
   pad : Pads, defect : Defects]

KeyTexts == {<<"a">>, <<"b">>}

ObjectValueTexts == {<<"1">>, <<"2">>, <<"[", TrueWord[1], TrueWord[2], TrueWord[3], TrueWord[4], "]">>}

ObjectDocs ==
  [form : {"object"}, pairs : SeqsUpTo(KeyTexts \X ObjectValueTexts, MaxPairs),
   pad : Pads, defect : Defects]

PairText(kv, pad) == <<Quote>> \o kv[1] \o <<Quote>> \o pad \o <<":">> \o pad \o kv[2]

(* Scalars and near misses, with whitespace and other text around them. *)
CoreTexts ==
  ElemTexts \cup BadElemTexts
    \cup { <<>>, TrueWord, FalseWord, <<"[", "]">>, <<"{", "}">>, <<"1", "2">>, <<"-", "1", "e", "2">>, <<"x">>, <<"-">>,
           <<"[", "1", "e", "]">>, <<"{", Quote, "a", Quote, ":", "1", ",", "}">>,
           <<"[", "1", "]">>, <<"{", Quote, "b", Quote, ":", "1", ",", Quote, "a", Quote, ":", "2", "}">> }

Leads == { <<>>, <<" ">>, <<"\n", "\t">> }

Trails == { <<>>, <<" ">>, <<" ", "\r">>, <<"x">>, <<" ", ",", "1">> }

PaddedTexts == {l \o c \o t : l \in Leads, c \in CoreTexts, t \in Trails}

DocText(d) ==
  CASE d.form = "raw" -> d.text
    [] d.form = "array" ->
         Bracketed("[", JoinPadded(d.elems, d.pad), "]", d.pad, d.defect)
    [] d.form = "object" ->
         Bracketed("{", JoinPadded([i \in 1..Len(d.pairs) |-> PairText(d.pairs[i], d.pad)], d.pad),
                   "}", d.pad, d.defect)
    [] d.form = "string" ->
         <<Quote>> \o Concat([i \in 1..Len(d.pieces) |-> d.pieces[i].src]) \o <<Quote>>
    [] d.form = "value" -> <<>>

----------------------------------------------------------------------------
(* The calls.  Each applies one function of json.rs to the caller's text   *)
(* and keeps its result.                                                   *)

Called(name, r) ==
  /\ op' = name
  /\ res' = r
  /\ UNCHANGED <<doc, input, shown>>

CallParseNull == Called("null", parse_json_null(input))

CallParseBool == Called("bool", parse_json_bool(input))

CallParseNumber == Called("number", parse_json_number(input))

CallParseString == Called("string", parse_json_string(input))

CallParseArray == \E seed \in HashSeeds : Called("array", parse_json_array(input, seed))

CallParseMap == \E seed \in HashSeeds : Called("map", parse_json_map(input, seed))

CallParseValue == \E seed \in HashSeeds : Called("value", parse_json_value(input, seed))

(* println!("{}", json_obj) (main.rs 34): the value last parsed is         *)
(* rendered.                                                               *)
Display ==
  /\ res.kind = "Ok"
  /\ Len(shown) < MaxShown
  /\ shown' = Append(shown, Render(res.out))
  /\ UNCHANGED <<doc, input, op, res>>

(* v.to_string() of a value the caller holds; the text is what the caller  *)
(* parses next.                                                            *)
CallToString ==
  /\ doc.form = "value"
  /\ op = "none"
  /\ input' = Render(doc.val)
  /\ op' = "to_string"
  /\ UNCHANGED <<doc, res, shown>>

InitWith(docs) ==
  /\ doc \in docs
  /\ input = DocText(doc)
  /\ op = "none"
  /\ res = NoResult
  /\ shown = <<>>

(* Arrays and padded values, through every function. *)
Init == InitWith(ArrayDocs \cup {RawDoc(t) : t \in PaddedTexts})

Next ==
  \/ CallParseNull
  \/ CallParseBool
  \/ CallParseNumber
  \/ CallParseString
  \/ CallParseArray
  \/ CallParseMap
  \/ CallParseValue
  \/ Display

Spec == Init /\ [][Next]_vars

(* Objects, parsed and rendered, as often as the caller likes. *)
InitObj == InitWith(ObjectDocs)

NextObj == CallParseMap \/ CallParseValue \/ Display

SpecObj == InitObj /\ [][NextObj]_vars

----------------------------------------------------------------------------
(* Literal words, whole and damaged, for the literal matchers.             *)

Words == {NullWord, TrueWord, FalseWord}

(* Characters a damaged word gets in place of one of its own. *)
SubstChars == {"N", "T", "F", "l", "e", "x"}

Substituted(w) ==
  {w} \cup {[w EXCEPT ![i] = c] : i \in 1..Len(w), c \in SubstChars}

Truncated(ws) == UNION {{Take(w, k) : k \in 0..Len(w)} : w \in ws}

SuffixChars == {"l", "e", "s", " ", "x"}

(* The inputs of the tests test_parse_json_null and test_parse_json_bool. *)
TestWords ==
  { <<"n", "u", "l">>, <<"N", "U", "L", "L">>, <<"n", "i", "l", "l">>,
    <<"n", "o", "n", "e">>, <<"N", "u", "l", "l">>, <<"n", "a", "n">>,
    <<"T", "R", "U", "E">>, <<"F", "a", "l", "s", "e">>,
    <<"t", "r", "u", "t", "h">>, <<"f", "a", "l", "s">> }

LitTexts ==
  {l \o w \o t : l \in Pads,
                 w \in Truncated(UNION {Substituted(x) : x \in Words}) \cup TestWords,
                 t \in SeqsUpTo(SuffixChars, MaxSuffix)}

InitLit == InitWith({RawDoc(t) : t \in LitTexts})

NextLit == CallParseNull \/ CallParseBool

SpecLit == InitLit /\ [][NextLit]_vars

----------------------------------------------------------------------------
(* Number texts: every text over these characters.                         *)

NumChars == {"-", "+", ".", "e", "E", "0", "1", "a"}

InitNum == InitWith({RawDoc(t) : t \in SeqsUpTo(NumChars, MaxNumLen)})

NextNum == CallParseNumber \/ CallParseValue

SpecNum == InitNum /\ [][NextNum]_vars

----------------------------------------------------------------------------
(* String literals composed of pieces, a piece being a run of ordinary     *)
(* characters or one escape sequence, with the text it denotes; and every  *)
(* short text over the characters the string grammar tells apart.          *)

Piece(src, text) == [src |-> src, text |-> text]

RunPieces == { Piece(<<"a">>, <<"a">>), Piece(<<"b", " ">>, <<"b", " ">>) }

EscapePieces ==
  { Piece(<<Backslash, Quote>>, <<Quote>>),
    Piece(<<Backslash, Backslash>>, <<Backslash>>),
    Piece(<<Backslash, "/">>, <<"/">>),
    Piece(<<Backslash, "b">>, <<"BS">>),
    Piece(<<Backslash, "f">>, <<"\f">>),
    Piece(<<Backslash, "n">>, <<"\n">>),
    Piece(<<Backslash, "r">>, <<"\r">>),
    Piece(<<Backslash, "t">>, <<"\t">>),
    Piece(<<Backslash, "u", "0", "0", "4", "1">>, <<"A">>) }

StringDocs == [form : {"string"}, pieces : SeqsUpTo(RunPieces \cup EscapePieces, MaxPieces)]

StrChars == {Quote, Backslash, "a", "n", "u"}

(* Collections that hold a string of no characters, as element and as key. *)
EmptyStringTexts ==
  { <<"[", Quote, Quote, "]">>,
    <<"{", Quote, Quote, ":", " ", "1", "}">> }

InitStr ==
  InitWith(StringDocs \cup {RawDoc(t) : t \in SeqsUpTo(StrChars, MaxStrLen) \cup EmptyStringTexts})

NextStr == CallParseString \/ CallParseValue

SpecStr == InitStr /\ [][NextStr]_vars

----------------------------------------------------------------------------
(* Values the caller builds, renders and parses back.                      *)

IntNumber(neg, n) == Number(F64Normal(neg, n, 0))

LeafValues ==
  { Null, Bool(TRUE), Bool(FALSE), IntNumber(FALSE, 7), IntNumber(TRUE, 120),
    String(<<"a">>), String(<<"b", " ", "c">>), String(<<>>) }

(* Sequences of <<key, value>> with distinct keys. *)
EntrySeqs(keys, values, n) ==
  {e \in SeqsUpTo(keys \X values, n) : \A i, j \in 1..Len(e) : e[i][1] = e[j][1] => i = j}

FlatValues ==
  {Array(items) : items \in SeqsUpTo(LeafValues, MaxItems)}
    \cup {Map(e) : e \in EntrySeqs(KeyTexts, LeafValues, MaxItems)}

HeldValues ==
  FlatValues
    \cup {Array(<<v>>) : v \in FlatValues}
    \cup {Map(<<<<k, v>>>>) : k \in KeyTexts, v \in FlatValues}

InitRT ==
  /\ doc \in [form : {"value"}, val : HeldValues]
  /\ input = <<>>
  /\ op = "none"
  /\ res = NoResult
  /\ shown = <<>>

NextRT == CallToString \/ (op # "none" /\ CallParseValue)

SpecRT == InitRT /\ [][NextRT]_vars

----------------------------------------------------------------------------
(* Claims about the literal matchers                                       *)

(* C10: parse_json_null succeeds exactly when the input starts with the    *)
(* four characters null, and returns Null and the input without those 4    *)
(* characters; parse_json_bool succeeds exactly when the input starts with *)
(* true or false, and returns Bool(true) or Bool(false) and the input      *)
(* without those 4 or 5 characters; on every other input they return an    *)
(* error raised at the start of the input, nothing consumed.               *)
C10_LiteralMatchers ==
  /\ op = "null" =>
       IF StartsWith(input, <<"n", "u", "l", "l">>)
       THEN res = Ok(Drop(input, 4), Null)
       ELSE res.kind = "Error" /\ res.rest = input
  /\ op = "bool" =>
       IF StartsWith(input, <<"t", "r", "u", "e">>)
       THEN res = Ok(Drop(input, 4), Bool(TRUE))
       ELSE IF StartsWith(input, <<"f", "a", "l", "s", "e">>)
       THEN res = Ok(Drop(input, 5), Bool(FALSE))
       ELSE res.kind = "Error" /\ res.rest = input

(* false followed by more text: Bool(false) and the rest. *)
C10_Witness ==
  /\ op = "bool"
  /\ res.kind = "Ok"
  /\ res.out = Bool(FALSE)
  /\ res.rest # <<>>

----------------------------------------------------------------------------
(* Claims about the number grammar                                         *)

AllDigits(s, from, n) == \A i \in from..from + n - 1 : s[i] \in Digits

(* L is a lexeme of [-]?digits[.digits]?[(e|E)[+|-]digits]?, with a the    *)
(* length of the sign, d of the integer digits, f of the fraction digits,  *)
(* g of the exponent sign and x of the exponent digits.                    *)
NumberLexeme(L) ==
  \E a \in 0..1, d \in 1..Len(L), f \in 0..Len(L), g \in 0..1, x \in 0..Len(L) :
    LET fl == IF f > 0 THEN 1 + f ELSE 0
        xl == IF x > 0 THEN 1 + g + x ELSE 0
    IN /\ Len(L) = a + d + fl + xl
       /\ a = 1 => L[1] = "-"
       /\ AllDigits(L, a + 1, d)
       /\ f > 0 => L[a + d + 1] = "." /\ AllDigits(L, a + d + 2, f)
       /\ x = 0 => g = 0
       /\ x > 0 => /\ L[a + d + fl + 1] \in {"e", "E"}
                   /\ g = 1 => L[a + d + fl + 2] \in {"+", "-"}
                   /\ AllDigits(L, a + d + fl + g + 2, x)

(* The length of the longest prefix of s that is a lexeme, 0 if none is. *)
LongestLexeme(s) ==
  IF \E k \in 1..Len(s) : NumberLexeme(Take(s, k))
  THEN CHOOSE k \in 1..Len(s) :
         /\ NumberLexeme(Take(s, k))
         /\ \A j \in k + 1..Len(s) : ~NumberLexeme(Take(s, j))
  ELSE 0

(* C3: on a lexeme L of the grammar followed by text that extends it to no *)
(* longer lexeme, parse_json_number succeeds and returns exactly that text *)
(* as the remaining text; an invalid continuation such as a '.' or an 'e'  *)
(* without digits is left unconsumed and is no error.                      *)
C3_ConsumesExactlyTheLexeme ==
  (op = "number" /\ LongestLexeme(input) > 0) =>
    /\ res.kind = "Ok"
    /\ res.rest = Drop(input, LongestLexeme(input))

(* C4: parse_json_number returns an error on every input no non-empty      *)
(* prefix of which is a lexeme of the grammar.                             *)
C4_RejectsWhatStartsNoNumber ==
  (op = "number" /\ LongestLexeme(input) = 0) => IsErr(res)

(* C9: the conversion to f64 succeeds on every text recognize_float        *)
(* accepts, so no call of parse_json_number or parse_json_value aborts:    *)
(* each returns a success or an error.                                     *)
C9_ConversionNeverFails ==
  /\ recognize_float(input).kind = "Ok" =>
       F64FromStr(recognize_float(input).out).kind = "Ok"
  /\ op \in {"number", "value"} => res.kind \in {"Ok", "Error", "Failure"}

(* A number with a fraction point and an exponent was converted. *)
C9_Witness ==
  /\ op = "number"
  /\ res.kind = "Ok"
  /\ res.rest = <<>>
  /\ \E i \in 1..Len(input) : input[i] = "."
  /\ \E i \in 1..Len(input) : input[i] \in ExpMarks

----------------------------------------------------------------------------
(* Claims about the string grammar                                         *)

(* C1: on a quoted literal composed of runs of ordinary characters and of  *)
(* the escapes \" \\ \/ \b \f \n \r \t \uXXXX, parse_json_string succeeds, *)
(* consumes the whole literal and returns the decoded text, every escape   *)
(* replaced by the character it denotes.                                   *)
C1_ReturnsDecodedText ==
  (op = "string" /\ doc.form = "string" /\ doc.pieces # <<>>) =>
    res = Ok(<<>>, String(Concat([i \in 1..Len(doc.pieces) |-> doc.pieces[i].text])))

(* C11: on an opening quote immediately followed by a closing quote,       *)
(* parse_json_string succeeds with String of length 0 and consumes both    *)
(* quotes, and parse_json_value accepts the collections that hold an empty *)
(* string or an empty key, [""] and {"": 1}.                               *)
C11_AcceptsTheEmptyString ==
  /\ (op = "string" /\ StartsWith(input, <<Quote, Quote>>)) =>
       res = Ok(Drop(input, 2), String(<<>>))
  /\ (op = "value" /\ input \in EmptyStringTexts) =>
       (res.kind = "Ok" /\ res.rest = <<>>)

----------------------------------------------------------------------------
(* Claims about arrays, objects and the dispatcher                         *)

AnySeed == CHOOSE seed \in HashSeeds : TRUE

(* The value a text denotes on its own. *)
ValueOf(t) == parse_json_value(t, AnySeed)

IsValueText(t) == ValueOf(t).kind = "Ok" /\ ValueOf(t).rest = <<>>

(* C2: the Object parsed from a well-formed object text has exactly one    *)
(* entry per key : value pair of the text, in the order of the text; pairs *)
(* with the same key all remain.                                           *)
C2_OneEntryPerPairInOrder ==
  (op \in {"map", "value"} /\ doc.form = "object" /\ doc.defect = "none") =>
    /\ res.kind = "Ok"
    /\ res.out.type = "Map"
    /\ Len(res.out.entries) = Len(doc.pairs)
    /\ \A i \in 1..Len(doc.pairs) :
         /\ res.out.entries[i][1] = doc.pairs[i][1]
         /\ ValueEq(res.out.entries[i][2], ValueOf(doc.pairs[i][2]).out)

(* C5: on the text of n >= 0 comma-separated values between brackets,      *)
(* whitespace allowed around the brackets and the commas, parse_json_array *)
(* returns the Array of those n values as parsed, in the order of the      *)
(* text, and consumes the text; with a comma before the closing bracket,   *)
(* without the closing bracket, or with an element that is no value, it    *)
(* returns an error and no Array.                                          *)
C5_ArrayGrammar ==
  (op = "array" /\ doc.form = "array") =>
    IF doc.defect = "none" /\ \A i \in 1..Len(doc.elems) : IsValueText(doc.elems[i])
    THEN /\ res.kind = "Ok"
         /\ res.rest = <<>>
         /\ res.out.type = "Array"
         /\ Len(res.out.items) = Len(doc.elems)
         /\ \A i \in 1..Len(doc.elems) :
              ValueEq(res.out.items[i], ValueOf(doc.elems[i]).out)
    ELSE IsErr(res)

(* Two elements, one of them a collection, were parsed from a text with    *)
(* whitespace around the separators.                                       *)
C5_Witness ==
  /\ op = "array"
  /\ doc.form = "array"
  /\ doc.defect = "none"
  /\ doc.pad # <<>>
  /\ res.kind = "Ok"
  /\ Len(res.out.items) = 2
  /\ res.out.items[1].type = "Number"
  /\ res.out.items[2].type \in {"Array", "Map"}

(* The results of the six grammars at p, in the order of the dispatcher. *)
GrammarResults(p, seed) ==
  << parse_json_null(p), parse_json_bool(p), parse_json_number(p),
     parse_json_string(p), parse_json_array(p, seed), parse_json_map(p, seed) >>

SkipWhitespace(s) == Drop(s, SpanLen(s, Whitespace))

(* C6: parse_json_value skips the leading whitespace and returns the       *)
(* result of the first of Null, Bool, Number, String, Array, Object that   *)
(* succeeds at that position, each tried at that same position, with the   *)
(* whitespace that follows the value removed from the remaining text; it   *)
(* fails exactly when none of the six succeeds there.                      *)
C6_FirstSuccessFromTheSamePosition ==
  op = "value" =>
    \E seed \in HashSeeds :
      LET rs == GrammarResults(SkipWhitespace(input), seed)
          succeeded == {i \in 1..6 : rs[i].kind = "Ok"}
          first == CHOOSE i \in succeeded : \A j \in succeeded : i <= j
      IN IF succeeded = {} THEN IsErr(res)
         ELSE res = Ok(SkipWhitespace(rs[first].rest), rs[first].out)

(* A collection after leading whitespace, with whitespace and then more   *)
(* text after it: an alternative later than Null, Bool, Number, String     *)
(* succeeded, and the remaining text starts after that whitespace.         *)
C6_Witness ==
  /\ op = "value"
  /\ input # <<>> /\ Head(input) \in Whitespace
  /\ res.kind = "Ok"
  /\ res.out.type \in {"Array", "Map"}
  /\ res.rest # <<>>
  /\ Head(res.rest) \notin Whitespace
  /\ input[Len(input) - Len(res.rest)] \in Whitespace

(* C8: the renderings of the values parsed from one text are all the same  *)
(* text, however often the text is parsed and the value rendered.          *)
C8_RenderingIsDeterministic ==
  \A i, j \in 1..Len(shown) : shown[i] = shown[j]

----------------------------------------------------------------------------
(* Claims about rendering and parsing back                                 *)

(* C7: for an Array or Object v built from Null, Bool, integer Numbers and *)
(* Strings without quote, backslash or control character,                  *)
(* parse_json_value on the rendered text of v succeeds with nothing        *)
(* remaining and returns v, elements and entries in the same order.        *)
C7_RoundTrip ==
  (op = "value" /\ doc.form = "value") => res = Ok(<<>>, doc.val)

====
